---- MODULE Spec2Model ----
(***************************************************************************)
(* The keyboard-driven selection menus of cli/src/menus.rs: select_menu    *)
(* (plain list), select_menu_with_input (filterable list with a line       *)
(* editor) and select_menu_numbered (one keystroke).  One invocation of    *)
(* one of the three functions is modelled from its first blocking key read *)
(* to its return value.                                                    *)
(***************************************************************************)
EXTENDS Integers, Sequences, FiniteSets, TLC

\* ------------------------------------------------------------------ bounds
\* longest list the caller supplies
MaxN == 3
\* longest input buffer that is typed
MaxLen == 2

\* usize::MAX, the value 0usize - 1 wraps to when overflow checks are off;
\* held at the largest integer the model checker represents.
UsizeMax == 2147483647

\* ------------------------------------------------------------------- keys
\* termion::event::Key as <<variant, char>>; the char is a code point and
\* is 0 for the variants that carry none.
KeyEnter == <<"Char", 10>>
KeyUp == <<"Up", 0>>
KeyDown == <<"Down", 0>>
KeyLeft == <<"Left", 0>>
KeyRight == <<"Right", 0>>
KeyBackspace == <<"Backspace", 0>>
KeyCtrlC == <<"Ctrl", 99>>
KeyEsc == <<"Esc", 0>>
\* no key read yet
NoKey == <<"", 0>>

\* the characters typed: '0' '1' 'a' and U+00E9
TypedChars == {48, 49, 97, 233}

Keys ==
    {KeyEnter, KeyUp, KeyDown, KeyLeft, KeyRight, KeyBackspace, KeyCtrlC, KeyEsc}
        \cup {<<"Char", c>> : c \in TypedChars}

\* Option<T> is the set of at most one T: None == {}, Some(x) == {x}
QuitOptions == {{}} \cup {{k} : k \in Keys}

\* a test that lets Latin-1 through
is_ascii_latin1(c) == c <= 255

\* char::is_ascii
is_ascii(c) == c <= 127

\* char::to_digit(10) as an Option<u32>
to_digit(c) == IF c >= 48 /\ c <= 57 THEN {c - 48} ELSE {}

\* saturating_sub that subtracts nothing
saturating_sub_noop(a, b) == a

\* usize::saturating_sub
saturating_sub(a, b) == IF a >= b THEN a - b ELSE 0

\* ------------------------------------------------------------ caller data
\* the i-th item of the caller's list, a label as a sequence of code
\* points: "a", "ba", "aa", "baa", ...
Item(i) == <<IF i % 2 = 1 THEN 97 ELSE 98>> \o [j \in 1..(i \div 2) |-> 97]

Source(n) == [i \in 1..n |-> Item(i)]

IsPrefix(p, s) == Len(p) <= Len(s) /\ SubSeq(s, 1, Len(p)) = p

Min(a, b) == IF a <= b THEN a ELSE b

\* --------------------------------------------------------------- terminal
\* the rows the cursor can be on when a menu function is called
AnchorRows == {1, 2}

\* the height of the screen: tall enough that no frame scrolls it
Rows == 2 + MaxN + 4

\* what a screen row shows, as <<kind, text>>
Blank == <<"blank", <<>>>>
\* a row that holds what the caller printed before the call
Outside == <<"outside", <<>>>>
\* a row that still shows output of a frame older than the last flush
Stale == <<"stale", <<>>>>

FrameKinds == {"title", "item", "sel", "prompt", "hint", "num", "quitrow", "stale"}

\* the pieces a write! is made of
Text(cell) == <<"text", cell>>
CR == <<"cr", 0>>
LF == <<"lf", 0>>
CRLF == <<"crlf", 0>>
Goto(r) == <<"goto", r>>
Up1 == <<"up", 1>>
Down1 == <<"down", 1>>
Right(n) == <<"right", n>>
ClearAfter == <<"clear_after", 0>>
ClearLine == <<"clear_line", 0>>
FLUSH == <<"flush", 0>>

\* the terminal's reaction to one piece: t.row is the cursor row and
\* t.scr the rows of the screen; columns are not followed
Apply(t, op) ==
    IF op[1] = "text" THEN [t EXCEPT !.scr[t.row] = op[2]]
    ELSE IF op[1] \in {"lf", "crlf", "down"}
    THEN [t EXCEPT !.row = IF t.row < Rows THEN t.row + 1 ELSE Rows]
    ELSE IF op[1] = "up" THEN [t EXCEPT !.row = IF t.row > 1 THEN t.row - 1 ELSE 1]
    ELSE IF op[1] = "goto" THEN [t EXCEPT !.row = op[2]]
    ELSE IF op[1] = "clear_after"
    THEN [t EXCEPT !.scr = [r \in 1..Rows |-> IF r >= t.row THEN Blank ELSE t.scr[r]]]
    ELSE IF op[1] = "clear_line" THEN [t EXCEPT !.scr[t.row] = Blank]
    ELSE t

RECURSIVE ApplyAll(_, _)
ApplyAll(t, ops) ==
    IF ops = <<>> THEN t ELSE ApplyAll(Apply(t, Head(ops)), Tail(ops))

\* marks what the frames so far drew, before the next flush reaches the
\* terminal
Age(t) ==
    [t EXCEPT !.scr = [r \in 1..Rows |->
        IF t.scr[r][1] \in FrameKinds THEN Stale ELSE t.scr[r]]]

\* the BufWriter over the terminal: a piece written is kept in the buffer
\* b until a flush hands the buffer to the terminal t
RECURSIVE Run(_, _, _)
Run(t, b, ops) ==
    IF ops = <<>> THEN [term |-> t, buf |-> b]
    ELSE IF Head(ops) = FLUSH
    THEN Run(ApplyAll(Age(t), b), <<>>, Tail(ops))
    ELSE Run(t, Append(b, Head(ops)), Tail(ops))

\* the screen and the cursor when a menu function is called on row p
Terminal0(p) ==
    [row |-> p, scr |-> [r \in 1..Rows |-> IF r < p THEN Outside ELSE Blank]]

\* the list rows of select_menu and select_menu_with_input, from item i on
RECURSIVE ItemOps(_, _, _)
ItemOps(l, idx, i) ==
    IF i > Len(l) THEN <<>>
    ELSE <<Text(<<IF i - 1 = idx THEN "sel" ELSE "item", l[i]>>), CRLF>>
             \o ItemOps(l, idx, i + 1)

\* the numbered rows of select_menu_numbered, from item i on
RECURSIVE NumOps(_, _)
NumOps(l, i) ==
    IF i > Len(l) THEN <<>>
    ELSE <<Text(<<"num", l[i]>>), CRLF>> \o NumOps(l, i + 1)

\* select_menu: the title, written once before the loop
PlainTitle == <<Text(<<"title", <<>>>>), CRLF>>

\* the list rows of select_menu without the flush
PlainFrameNoFlush(l, idx) == ItemOps(l, idx, 1)

\* select_menu: the list rows of one iteration and the flush before the key read
PlainFrame(l, idx) == ItemOps(l, idx, 1) \o <<FLUSH>>

\* the return to the anchor with only the current line cleared
PlainAfterKeyClearsLine(p) == <<CR, Goto(p), ClearLine>>

\* select_menu: after the key read, back to pos and clear to the end of screen
PlainAfterKey(p) == <<CR, Goto(p), ClearAfter>>

\* select_menu: after the loop
PlainExit == <<Up1, ClearLine, FLUSH>>

\* select_menu_with_input: the head of one iteration up to the key read
InputHead(text, l, idx, p, cur) ==
    <<CR, ClearAfter, Text(<<"prompt", text>>)>>
        \o (IF Len(l) > 0
            THEN <<CRLF, LF, Text(<<"hint", <<1>>>>), LF, CR,
                   Text(<<"hint", <<2>>>>), CRLF>>
            ELSE <<>>)
        \o ItemOps(l, idx, 1)
        \o (IF Len(l) > 0 THEN <<Goto(p)>> ELSE <<>>)
        \o <<CR, Right(cur), FLUSH, CR, ClearAfter>>

\* select_menu_with_input: the notice of the non-ASCII branch
Notice == <<Up1, ClearLine, Text(<<"notice", <<>>>>), Down1, CR>>

\* select_menu_with_input: after the loop
InputExit == <<CR, Up1, ClearAfter, CRLF, FLUSH>>

\* select_menu_numbered: the whole frame before the key read
NumberedFrame(l) ==
    <<CR, Text(<<"title", <<>>>>), CRLF>>
        \o NumOps(l, 1)
        \o <<Text(<<"quitrow", <<>>>>), CRLF, FLUSH>>

\* select_menu_numbered: after the key read
NumberedAfterKey(p) == <<CR, Goto(p), ClearAfter, FLUSH>>

VARIABLES
    mode,        \* which function runs: "plain", "input" or "numbered"
    items,       \* the caller's list (plain, numbered) or the data the lister filters
    quit,        \* the quit parameter, an Option<Key> (Some in numbered mode)
    select_idx,  \* select_idx
    input,       \* input: String, as a sequence of code points
    cursor,      \* cursor: the caret offset in input
    key,         \* the key read last
    list,        \* list: the items of the current loop iteration
    pos,         \* pos.1: the cursor row recorded when the function is called
    term,        \* the terminal: cursor row and screen rows as displayed
    stdout,      \* self.stdout: the pieces written and not yet flushed
    ret          \* the function's result, <<"Pending", 0>> while it loops

vars == <<mode, items, quit, select_idx, input, cursor, key, list, pos, term, stdout, ret>>

Pending == <<"Pending", 0>>
RetNone == <<"None", 0>>
RetQuit == <<"Quit", 0>>
RetPanic == <<"Panic", 0>>

\* the caller's query function: the items whose label starts with the text
lister(text) == SelectSeq(items, LAMBDA it : IsPrefix(text, it))

\* a list computed once, from the empty input, and never again
RelistStale(text) == lister(<<>>)

\* let mut list = lister(&input), at the head of every loop iteration
Relist(text) == lister(text)

list_len == Len(list)

\* a quit guard that forgets the caller's quit key
is_quit_interrupt_only(k, q) == k = KeyCtrlC

\* a quit guard that forgets the interrupt key
is_quit_param_only(k, q) == k \in q

\* the guard of the quit arm: k == Key::Ctrl('c') || quit.is_some_and(|q| q == k)
is_quit(k, q) == k = KeyCtrlC \/ k \in q

\* Key::Down with the guard off by one
MoveDownOffByOne(i, n) == IF i + 1 <= n THEN i + 1 ELSE i

\* Key::Down
MoveDown(i, n) == IF i + 1 < n THEN i + 1 ELSE i

\* a clamp that steps down by one when the index is past the end
ClampStepDown(i, n) == IF i > n THEN i - 1 ELSE i

\* select_idx = select_idx.min(list_len)
Clamp(i, n) == Min(i, n)

\* Key::Right with the guard off by one
MoveRightOffByOne(c, len) == IF c <= len THEN c + 1 ELSE c

\* Key::Right
MoveRight(c, len) == IF c < len THEN c + 1 ELSE c

Init ==
    /\ mode \in {"plain", "input", "numbered"}
    /\ items \in {Source(n) : n \in 0..MaxN}
    /\ quit \in QuitOptions
    /\ mode = "numbered" => quit # {}
    /\ select_idx = 0
    /\ input = <<>>
    /\ cursor = 0
    /\ key = NoKey
    /\ list = IF mode = "input" THEN Relist(input) ELSE items
    /\ pos \in AnchorRows
    /\ LET first == IF mode = "plain" THEN PlainTitle \o PlainFrame(list, 0)
                    ELSE IF mode = "input" THEN InputHead(input, list, 0, pos, 0)
                    ELSE NumberedFrame(list)
           out == Run(Terminal0(pos), <<>>, first)
       IN  term = out.term /\ stdout = out.buf
    /\ ret = Pending

\* select_menu: one iteration of the loop from the key read on
SelectMenuKey(k) ==
    /\ mode = "plain"
    /\ ret = Pending
    /\ key' = k
    /\ IF k = KeyEnter
       THEN ret' = <<"Some", select_idx>> /\ UNCHANGED select_idx
       ELSE IF k = KeyUp
       THEN select_idx' = saturating_sub(select_idx, 1) /\ UNCHANGED ret
       ELSE IF k = KeyDown
       THEN select_idx' = MoveDown(select_idx, list_len) /\ UNCHANGED ret
       ELSE IF is_quit(k, quit)
       THEN ret' = RetNone /\ UNCHANGED select_idx
       ELSE UNCHANGED <<select_idx, ret>>
    /\ \E out \in {Run(term, stdout,
                      PlainAfterKey(pos)
                          \o IF ret' = Pending
                             THEN PlainFrame(list, select_idx')
                             ELSE PlainExit)} :
           term' = out.term /\ stdout' = out.buf
    /\ UNCHANGED <<mode, items, quit, input, cursor, list, pos>>

Remove(s, i) == SubSeq(s, 1, i) \o SubSeq(s, i + 2, Len(s))

Insert(s, i, c) == SubSeq(s, 1, i) \o <<c>> \o SubSeq(s, i + 1, Len(s))

\* select_menu_with_input: the match on the key, then, unless the loop
\* breaks, the head of the next iteration, which calls the lister on the
\* new input and clamps select_idx.  The arms are tried in the order
\* Enter, Up, Down, Backspace, Char, Right, Left, quit, `_`: the quit arm
\* is reached only by a key none of the arms before it names.
SelectMenuWithInputKey(k) ==
    /\ mode = "input"
    /\ ret = Pending
    /\ key' = k
    /\ IF k = KeyEnter
       THEN /\ ret' = IF list_len > select_idx
                      THEN <<"Some", list[select_idx + 1]>>
                      ELSE RetNone
            /\ UNCHANGED <<select_idx, input, cursor, list>>
       ELSE IF k # KeyUp /\ k # KeyDown /\ k # KeyBackspace /\ k[1] # "Char"
               /\ k # KeyRight /\ k # KeyLeft /\ is_quit(k, quit)
       THEN ret' = RetNone /\ UNCHANGED <<select_idx, input, cursor, list>>
       ELSE /\ IF k = KeyBackspace /\ cursor > 0
               THEN cursor' = cursor - 1 /\ input' = Remove(input, cursor - 1)
               ELSE IF k[1] = "Char" /\ is_ascii(k[2])
               THEN /\ Len(input) < MaxLen
                    /\ input' = Insert(input, cursor, k[2])
                    /\ cursor' = cursor + 1
               ELSE IF k = KeyRight
               THEN cursor' = MoveRight(cursor, Len(input)) /\ UNCHANGED input
               ELSE IF k = KeyLeft
               THEN cursor' = saturating_sub(cursor, 1) /\ UNCHANGED input
               ELSE UNCHANGED <<cursor, input>>
            /\ list' = Relist(input')
            /\ select_idx' =
                   Clamp(IF k = KeyUp THEN saturating_sub(select_idx, 1)
                         ELSE IF k = KeyDown THEN MoveDown(select_idx, list_len)
                         ELSE select_idx,
                         Len(list'))
            /\ UNCHANGED ret
    /\ \E out \in {Run(term, stdout,
                      IF ret' # Pending THEN InputExit
                      ELSE (IF k[1] = "Char" /\ ~is_ascii(k[2]) THEN Notice ELSE <<>>)
                               \o InputHead(input', list', select_idx', pos, cursor'))} :
           term' = out.term /\ stdout' = out.buf
    /\ UNCHANGED <<mode, items, quit, pos>>

\* the outcomes of the match of select_menu_numbered on key k with a list
\* of n items; `d as usize - 1` with d = 0 panics when overflow checks are
\* on and wraps when they are off
NumberedResp(k, n, q) ==
    IF k[1] = "Char" /\ (\E d \in to_digit(k[2]) : d <= n)
    THEN LET d == CHOOSE d \in to_digit(k[2]) : TRUE
         IN  IF d >= 1 THEN {<<"Index", d - 1>>}
                       ELSE {RetPanic, <<"Index", UsizeMax>>}
    ELSE IF k = KeyCtrlC \/ {k} = q
    THEN {RetQuit}
    ELSE {<<"UndefinedKey", k>>}

\* select_menu_numbered: reads one key and returns
SelectMenuNumberedKey(k) ==
    /\ mode = "numbered"
    /\ ret = Pending
    /\ key' = k
    /\ ret' \in NumberedResp(k, list_len, quit)
    /\ \E out \in {Run(term, stdout, NumberedAfterKey(pos))} :
           term' = out.term /\ stdout' = out.buf
    /\ UNCHANGED <<mode, items, quit, select_idx, input, cursor, list, pos>>

Next ==
    \/ \E k \in Keys : SelectMenuKey(k)
    \/ \E k \in Keys : SelectMenuWithInputKey(k)
    \/ \E k \in Keys : SelectMenuNumberedKey(k)

Spec == Init /\ [][Next]_vars

\* ---------------------------------------------------------------- claims
Max(a, b) == IF a >= b THEN a ELSE b

IsDigitKey(k) == k[1] = "Char" /\ to_digit(k[2]) # {}

DigitOf(k) == CHOOSE d \in to_digit(k[2]) : TRUE

\* C1: in plain mode with an empty list the invocation never returns
\* Some(index), and Enter returns None.
C1_EmptyListEnterIsNone ==
    (mode = "plain" /\ Len(items) = 0)
        => /\ ret[1] # "Some"
           /\ key = KeyEnter => ret = RetNone

\* C2: in numbered mode a key other than the quit key and Ctrl-C that is
\* digit 0, a digit greater than N, or no digit at all, yields UndefinedKey
\* carrying that key: never Index, never a failure.
C2_OtherKeysAreUndefinedKey ==
    (/\ mode = "numbered"
     /\ key # NoKey
     /\ key \notin quit
     /\ key # KeyCtrlC
     /\ \/ ~IsDigitKey(key)
        \/ DigitOf(key) = 0
        \/ DigitOf(key) > Len(items))
        => ret[1] = "UndefinedKey" /\ ret[2] = key

\* C3: in numbered mode a digit key d with 1 <= d <= N yields Index(d-1),
\* and every returned Index(i) has 0 <= i < N.
C3_IndexInRange ==
    mode = "numbered"
        => /\ (IsDigitKey(key) /\ DigitOf(key) \in 1..Len(items))
                  => ret = <<"Index", DigitOf(key) - 1>>
           /\ ret[1] = "Index" => ret[2] \in 0..(Len(items) - 1)

\* C4: in numbered mode pressing the quit key yields Quit, for every quit
\* key and every list: never Index, never UndefinedKey.
C4_QuitKeyAlwaysQuits ==
    (mode = "numbered" /\ key \in quit) => ret = RetQuit

\* C5: in filterable mode Enter with a non-empty filtered list returns
\* Some(the highlighted item); Enter returns None only with an empty list.
C5_EnterReturnsHighlighted ==
    (mode = "input" /\ key = KeyEnter)
        => IF list_len > 0
           THEN /\ ret[1] = "Some"
                /\ select_idx < list_len
                /\ ret[2] = list[select_idx + 1]
           ELSE ret = RetNone

\* C6: in filterable mode, at every key read, a non-empty filtered list
\* has select_idx in [0, len).
C6_IndexInList ==
    (mode = "input" /\ list_len > 0) => select_idx \in 0..(list_len - 1)

\* C7: in plain and filterable mode, with a list of fixed length N, Up and
\* Down from index 0 keep the index in [0, max(N-1, 0)]; Down gives
\* min(N-1, i+1) (i when N = 0), Up gives max(0, i-1), and neither changes
\* the list length.
C7_UpDownStep ==
    (/\ mode \in {"plain", "input"}
     /\ ret = Pending
     /\ key' \in {KeyUp, KeyDown}
     /\ select_idx \in 0..Max(list_len - 1, 0))
        => /\ list_len' = list_len
           /\ select_idx' \in 0..Max(list_len - 1, 0)
           /\ key' = KeyDown
                  => select_idx' = IF select_idx < list_len - 1
                                   THEN select_idx + 1
                                   ELSE select_idx
           /\ key' = KeyUp
                  => select_idx' = IF select_idx > 0
                                   THEN select_idx - 1
                                   ELSE 0

C7_UpDownSaturates == select_idx = 0 /\ [][C7_UpDownStep]_vars

\* Down was pressed in filterable mode and the last of several items is
\* highlighted
C7_Witness ==
    /\ mode = "input"
    /\ ret = Pending
    /\ key = KeyDown
    /\ list_len >= 2
    /\ select_idx = list_len - 1

\* C8: in plain mode with N >= 1, over keys that are neither the quit key
\* nor Ctrl-C, the index starts at 0, Up gives max(0, i-1), Down gives
\* min(N-1, i+1), any other key leaves it, and the first Enter returns
\* Some(i).
C8_PlainStep ==
    (/\ mode = "plain"
     /\ Len(items) >= 1
     /\ ret = Pending
     /\ key' \notin quit
     /\ key' # KeyCtrlC)
        => IF key' = KeyEnter
           THEN ret' = <<"Some", select_idx>>
           ELSE /\ ret' = Pending
                /\ select_idx' =
                       IF key' = KeyUp THEN Max(0, select_idx - 1)
                       ELSE IF key' = KeyDown
                       THEN Min(Len(items) - 1, select_idx + 1)
                       ELSE select_idx

C8_PlainResultIsFold == select_idx = 0 /\ [][C8_PlainStep]_vars

\* Enter on the third of three items after two Downs
C8_Witness ==
    /\ mode = "plain"
    /\ Len(items) = 3
    /\ key = KeyEnter
    /\ ret = <<"Some", 2>>

\* the keys an earlier arm of the match takes before the quit arm is tried
BoundBeforeQuit(m, k) ==
    IF m = "plain"
    THEN k \in {KeyEnter, KeyUp, KeyDown}
    ELSE \/ k \in {KeyEnter, KeyUp, KeyDown, KeyBackspace, KeyRight, KeyLeft}
         \/ k[1] = "Char"

\* C9 as stated: in plain and filterable mode, for every quit key, the
\* key event equal to the quit key ends the invocation with None.
C9_QuitKeyAlwaysNone ==
    (mode \in {"plain", "input"} /\ key \in quit) => ret = RetNone

\* C9 as amended: in plain and filterable mode the key event equal to the
\* quit key ends the invocation with None, whatever the index and the
\* buffer, for every quit key the mode does not bind itself: not Enter, Up
\* or Down in plain mode (other character keys included), and not Enter,
\* Up, Down, Backspace, Left, Right or any character key in filterable mode.
C9_UnboundQuitKeyNone ==
    (/\ mode \in {"plain", "input"}
     /\ key \in quit
     /\ ~BoundBeforeQuit(mode, key))
        => ret = RetNone

\* a printable quit key ended plain mode away from index 0
C9_Witness ==
    /\ mode = "plain"
    /\ quit = {<<"Char", 97>>}
    /\ key = <<"Char", 97>>
    /\ select_idx > 0
    /\ ret = RetNone

\* C10: in every mode Ctrl-C ends the invocation on that key event, with
\* None in plain and filterable mode and Quit in numbered mode.
C10_InterruptEnds ==
    key = KeyCtrlC => ret = IF mode = "numbered" THEN RetQuit ELSE RetNone

\* Ctrl-C ended filterable mode with text typed and the index moved
C10_Witness ==
    /\ mode = "input"
    /\ key = KeyCtrlC
    /\ input # <<>>
    /\ select_idx > 0
    /\ ret = RetNone

\* C11: in filterable mode the caret stays in [0, buffer length] at every
\* step; Backspace at caret 0 and Right at caret = length change nothing.
C11_NoOpStep ==
    (mode = "input" /\ ret = Pending)
        => /\ (key' = KeyBackspace /\ cursor = 0)
                  => UNCHANGED <<input, cursor>>
           /\ (key' = KeyRight /\ cursor = Len(input))
                  => UNCHANGED <<input, cursor>>

C11_CaretInBuffer ==
    [](mode = "input" => cursor \in 0..Len(input)) /\ [][C11_NoOpStep]_vars

\* Right was pressed with the caret at the end of a non-empty buffer
C11_Witness ==
    /\ mode = "input"
    /\ key = KeyRight
    /\ input # <<>>
    /\ cursor = Len(input)

\* C12: in filterable mode a non-ASCII character key leaves the buffer,
\* the caret and the selection index unchanged and the loop goes on.
C12_NonAsciiStep ==
    (/\ mode = "input"
     /\ ret = Pending
     /\ key'[1] = "Char"
     /\ key'[2] > 127)
        => /\ UNCHANGED <<input, cursor, select_idx>>
           /\ ret' = Pending

C12_NonAsciiRejected == [][C12_NonAsciiStep]_vars

\* U+00E9 was pressed with text typed and the index moved
C12_Witness ==
    /\ mode = "input"
    /\ key = <<"Char", 233>>
    /\ input # <<>>
    /\ select_idx > 0
    /\ ret = Pending

\* C13: in filterable mode the list a key is interpreted against is the
\* query function applied to the buffer as it is at that key read, and an
\* item returned on Enter is an element of query(buffer at Enter).
C13_ListIsQueryOfBuffer ==
    mode = "input"
        => /\ list = lister(input)
           /\ ret[1] = "Some"
                  => \E i \in 1..Len(lister(input)) : lister(input)[i] = ret[2]

\* Enter returned an item of a list that typing had narrowed
C13_Witness ==
    /\ mode = "input"
    /\ key = KeyEnter
    /\ ret[1] = "Some"
    /\ input # <<>>
    /\ Len(list) < Len(items)

\* C14: a numbered-mode invocation reads exactly one key and then returns
\* exactly one of Index, Quit or UndefinedKey; no second key is read.
C14_OneKeyStep ==
    mode = "numbered"
        => /\ key = NoKey
           /\ key' # NoKey
           /\ ret'[1] \in {"Index", "Quit", "UndefinedKey"}

C14_OneKeyOneOutcome == [][C14_OneKeyStep]_vars

\* C15: re-clamping the selection index against the regenerated list is
\* idempotent: at every key read of filterable mode, clamping the index
\* against the list once more gives the same index.
C15_ClampIdempotent ==
    (mode = "input" /\ ret = Pending)
        => Clamp(select_idx, list_len) = select_idx

\* typing shrank the list to the length the index already had
C15_Witness ==
    /\ mode = "input"
    /\ ret = Pending
    /\ input # <<>>
    /\ select_idx = 2
    /\ list_len = 2
    /\ Len(items) > 2

C17_ExitCursorRow ==
    ret # Pending => term.row = IF mode = "input" THEN pos + 1 ELSE pos

\* C18: in plain mode every frame on screen while the widget blocks for a
\* key shows the title line followed by the list items.
C18_TitleOnEveryFrame ==
    (mode = "plain" /\ ret = Pending)
        => /\ term.scr[pos][1] = "title"
           /\ \A i \in 1..Len(list) :
                  term.scr[pos + i] =
                      <<IF i - 1 = select_idx THEN "sel" ELSE "item", list[i]>>

\* C19: no write or clear of the widget, in the loop or on exit, changes a
\* screen row above the anchor row.
C19_RowsAboveAnchorUntouched ==
    \A r \in 1..(pos - 1) : term.scr[r] = Outside

====
